---------------------------- MODULE Spec2Model ----------------------------
(***************************************************************************)
(* State-machine model of the PermaMuseum Soroban contracts:               *)
(*   - CulturalNFT  (contracts/cultural-nft/src/lib.rs): the asset         *)
(*     registry with owner, metadata, provenance and approval records;     *)
(*   - Marketplace  (contracts/marketplace/src/lib.rs): fixed-price        *)
(*     listings and ascending auctions keyed by (nft_contract, token_id);  *)
(*   - SocialFi     (contracts/socialfi/src/lib.rs): the points balances   *)
(*     and the rewards redeemed against them.                              *)
(*                                                                         *)
(* Every contract entry point is one action.  A Soroban invocation is      *)
(* atomic: a panic (or a failed require_auth) aborts the invocation and    *)
(* the host discards all of its writes.  Each action therefore computes    *)
(* the outcome of the call in the order in which the code performs its     *)
(* checks (the ...Result operators) and applies the writes only when the   *)
(* outcome is "ok": that is the action's guard.  A failing invocation      *)
(* changes nothing, so it is a stuttering step of the specification.       *)
(* The history variable `last` records the last successful invocation.     *)
(***************************************************************************)
EXTENDS Integers, Sequences, FiniteSets

(***************************************************************************)
(* Bounds of the model.                                                    *)
(***************************************************************************)
MaxTime == 2
MaxProv == 2
MaxAmount == 2
MaxDuration == 1
MaxBalance == 3        \* stands for i128::MAX: an i128 ranges over -(MaxBalance+1)..MaxBalance
MaxRedemptions == 1

Addr == {"A", "B", "C"}
TokenIds == {1}
Amounts == (-1)..MaxAmount
Durations == 0..MaxDuration
Names == {"PermaMuseum"}
Symbols == {"PMUS"}
Metadata == {"m1"}
MuseumRegistry == "museum-registry"
NftContracts == {"cultural-nft"}
FeePercentages == {250}
Users == {"A", "B"}
Redemptions == 0..MaxRedemptions
RewardIds == {1}

VARIABLES
    nftInstance,    \* CulturalNFT instance storage: ADMIN, NAME, SYMBOL, MUS_REG, TOKEN_CNT
    owner,          \* CulturalNFT persistent storage, key (OWNER, token_id)
    metadata,       \* key (METADATA, token_id)
    provenance,     \* key (PROV, token_id)
    approval,       \* key (APPROVAL, token_id)
    mktInstance,    \* Marketplace instance storage: ADMIN, FEE_PCT, LIST_CNT, AUCT_CNT
    listing,        \* Marketplace persistent storage, key (LISTING, nft_contract, token_id)
    auction,        \* key (AUCTION, nft_contract, token_id)
    bids,           \* key (BID, nft_contract, token_id, bidder)
    sfInstance,     \* SocialFi instance storage: ADMIN, BADGE_CNT, REWARD_CN
    points,         \* SocialFi persistent storage, key (POINTS, user)
    rewards,        \* key (REWARDS, reward_id)
    activity,       \* key (ACTIVITY, user, timestamp)
    overflow_checks, \* the build: i128 overflow panics (TRUE) or wraps (FALSE)
    now,            \* env.ledger().timestamp()
    last            \* the last invocation and its outcome

nftVars == <<nftInstance, owner, metadata, provenance, approval>>
mktVars == <<mktInstance, listing, auction, bids>>
sfVars == <<sfInstance, points, rewards, activity, overflow_checks>>
vars == <<nftInstance, owner, metadata, provenance, approval,
          mktInstance, listing, auction, bids,
          sfInstance, points, rewards, activity, overflow_checks, now, last>>

(***************************************************************************)
(* The keyed store: a storage namespace is a function from the keys that   *)
(* are present to their values.                                            *)
(***************************************************************************)
Has(store, key) == key \in DOMAIN store

Set(store, key, value) ==
    [k \in DOMAIN store \cup {key} |-> IF k = key THEN value ELSE store[k]]

Remove(store, key) == [k \in DOMAIN store \ {key} |-> store[k]]

GetOr(store, key, default) == IF Has(store, key) THEN store[key] ELSE default

Empty == [k \in {} |-> 0]

(***************************************************************************)
(* Records                                                                 *)
(***************************************************************************)
PROVENANCERecord(date, from, to, transaction_type, notes) ==
    [date |-> date, from |-> from, to |-> to,
     transaction_type |-> transaction_type, notes |-> notes]

\* The initial provenance vectors a mint is invoked with.
InitialProvenance(to) ==
    { <<>>, <<PROVENANCERecord(0, to, to, "origin", "Initial record")>> }

\* The history variable: the last successful invocation and its arguments.
Call(op, args) == [op |-> op, args |-> args]

(***************************************************************************)
(* CulturalNFT                                                             *)
(***************************************************************************)
exists(token_id) == Has(owner, token_id)

owner_of(token_id) == owner[token_id]

get_provenance(token_id) == provenance[token_id]

total_supply == GetOr(nftInstance, "TOKEN_CNT", 0)

\* initialize: panics when ADMIN is already set.
NftInitializeResult ==
    IF Has(nftInstance, "ADMIN") THEN "AlreadyInitialized" ELSE "ok"

NftInitialize ==
    \E admin \in Addr, name \in Names, symbol \in Symbols :
        /\ NftInitializeResult = "ok"
        /\ nftInstance' =
             Set(Set(Set(Set(Set(nftInstance, "ADMIN", admin), "NAME", name),
                 "SYMBOL", symbol), "MUS_REG", MuseumRegistry), "TOKEN_CNT", 0)
        /\ last' = Call("nft_initialize", [admin |-> admin])
        /\ UNCHANGED <<owner, metadata, provenance, approval, mktVars, now, sfVars>>

\* Mutant of MintCulturalNft: the token counter is not incremented.
MintCulturalNft_CountKept ==
    \E signer \in Addr, to \in Addr, token_id \in TokenIds, md \in Metadata :
      \E prov \in InitialProvenance(to) :
        /\ Has(nftInstance, "ADMIN") /\ signer = nftInstance["ADMIN"]
        /\ ~Has(owner, token_id)
        /\ owner' = Set(owner, token_id, to)
        /\ metadata' = Set(metadata, token_id, md)
        /\ provenance' = Set(provenance, token_id, prov)
        /\ last' = Call("mint", [signer |-> signer, to |-> to, token_id |-> token_id])
        /\ UNCHANGED <<nftInstance, approval, mktVars, now, sfVars>>

\* Mutant of MintResult: the signer is not compared with the administrator.
MintResult_NoAdminCheck(signer, token_id) ==
    IF ~Has(nftInstance, "ADMIN") THEN "NotInitialized"
    ELSE IF Has(owner, token_id) THEN "AlreadyExists"
    ELSE "ok"

\* Mutant of MintResult: an existing token id may be minted again.
MintResult_NoExistsCheck(signer, token_id) ==
    IF ~Has(nftInstance, "ADMIN") THEN "NotInitialized"
    ELSE IF signer # nftInstance["ADMIN"] THEN "Unauthorized"
    ELSE "ok"

\* mint_cultural_nft: admin read (unwrap), admin.require_auth(), existence check.
MintResult(signer, token_id) ==
    IF ~Has(nftInstance, "ADMIN") THEN "NotInitialized"
    ELSE IF signer # nftInstance["ADMIN"] THEN "Unauthorized"
    ELSE IF Has(owner, token_id) THEN "AlreadyExists"
    ELSE "ok"

MintCulturalNft ==
    \E signer \in Addr, to \in Addr, token_id \in TokenIds, md \in Metadata :
      \E prov \in InitialProvenance(to) :
        /\ MintResult(signer, token_id) = "ok"
        /\ owner' = Set(owner, token_id, to)
        /\ metadata' = Set(metadata, token_id, md)
        /\ provenance' = Set(provenance, token_id, prov)
        /\ nftInstance' = Set(nftInstance, "TOKEN_CNT", total_supply + 1)
        /\ last' = Call("mint", [signer |-> signer, to |-> to, token_id |-> token_id])
        /\ UNCHANGED <<approval, mktVars, now, sfVars>>

\* `current_owner != from` of transfer, approve and transfer_from.
NotTheOwner(current_owner, from) == current_owner # from

\* Mutant of TransferResult: the ownership check is missing.
TransferResult_NoOwnerCheck(signer, from, token_id) ==
    IF signer # from THEN "Unauthorized"
    ELSE IF ~Has(owner, token_id) THEN "NotFound"
    ELSE "ok"

\* transfer: from.require_auth(), existence, current_owner != from.
TransferResult(signer, from, token_id) ==
    IF signer # from THEN "Unauthorized"
    ELSE IF ~Has(owner, token_id) THEN "NotFound"
    ELSE IF NotTheOwner(owner[token_id], from) THEN "Unauthorized"
    ELSE "ok"

\* Mutant of TransferWrites: the record names the recipient as its `from`.
TransferWrites_FromMisrecorded(from, to, token_id) ==
    /\ owner' = Set(owner, token_id, to)
    /\ provenance' = Set(provenance, token_id,
          Append(GetOr(provenance, token_id, <<>>),
                 PROVENANCERecord(now, to, to, "transfer", "Direct transfer")))
    /\ UNCHANGED approval

\* Mutant of TransferWrites: the provenance is appended but the owner written
\* is `from`, so the token does not move.
TransferWrites_OwnerNotMoved(from, to, token_id) ==
    /\ owner' = Set(owner, token_id, from)
    /\ provenance' = Set(provenance, token_id,
          Append(GetOr(provenance, token_id, <<>>),
                 PROVENANCERecord(now, from, to, "transfer", "Direct transfer")))
    /\ UNCHANGED approval

\* The writes of a successful transfer: the owner and the provenance, nothing else.
TransferWrites(from, to, token_id) ==
    /\ owner' = Set(owner, token_id, to)
    /\ provenance' = Set(provenance, token_id,
          Append(GetOr(provenance, token_id, <<>>),
                 PROVENANCERecord(now, from, to, "transfer", "Direct transfer")))
    /\ UNCHANGED approval

Transfer ==
    \E signer \in Addr, from \in Addr, to \in Addr, token_id \in TokenIds :
        /\ TransferResult(signer, from, token_id) = "ok"
        /\ Len(GetOr(provenance, token_id, <<>>)) < MaxProv
        /\ TransferWrites(from, to, token_id)
        /\ last' = Call("transfer", [signer |-> signer, from |-> from, to |-> to,
                                     token_id |-> token_id])
        /\ UNCHANGED <<nftInstance, metadata, mktVars, now, sfVars>>

\* Mutant of ApproveResult: the ownership check is missing.
ApproveResult_NoOwnerCheck(signer, from, token_id) ==
    IF signer # from THEN "Unauthorized"
    ELSE IF ~Has(owner, token_id) THEN "NotFound"
    ELSE "ok"

\* approve: from.require_auth(), existence, current_owner != from.
ApproveResult(signer, from, token_id) ==
    IF signer # from THEN "Unauthorized"
    ELSE IF ~Has(owner, token_id) THEN "NotFound"
    ELSE IF NotTheOwner(owner[token_id], from) THEN "Unauthorized"
    ELSE "ok"

Approve ==
    \E signer \in Addr, from \in Addr, to \in Addr, token_id \in TokenIds :
        /\ ApproveResult(signer, from, token_id) = "ok"
        /\ approval' = Set(approval, token_id, to)
        /\ last' = Call("approve", [signer |-> signer, from |-> from, to |-> to,
                                    token_id |-> token_id])
        /\ UNCHANGED <<nftInstance, owner, metadata, provenance, mktVars, now, sfVars>>

\* transfer_from: spender.require_auth(), existence, owner, approval.
TransferFromResult(signer, spender, from, token_id) ==
    IF signer # spender THEN "Unauthorized"
    ELSE IF ~Has(owner, token_id) THEN "NotFound"
    ELSE IF NotTheOwner(owner[token_id], from) THEN "Unauthorized"
    ELSE IF ~Has(approval, token_id) THEN "Unauthorized"
    ELSE IF approval[token_id] # spender THEN "Unauthorized"
    ELSE "ok"

\* Mutant of TransferFromWrites: the approval is not removed.
TransferFromWrites_ApprovalKept(from, to, token_id) ==
    /\ owner' = Set(owner, token_id, to)
    /\ UNCHANGED approval
    /\ provenance' = Set(provenance, token_id,
          Append(GetOr(provenance, token_id, <<>>),
                 PROVENANCERecord(now, from, to, "transfer_from", "Approved transfer")))

\* Mutant of TransferFromWrites: the provenance is replaced by the new record
\* instead of being extended by it.
TransferFromWrites_ProvenanceReset(from, to, token_id) ==
    /\ owner' = Set(owner, token_id, to)
    /\ approval' = Remove(approval, token_id)
    /\ provenance' = Set(provenance, token_id,
          <<PROVENANCERecord(now, from, to, "transfer_from", "Approved transfer")>>)

TransferFromWrites(from, to, token_id) ==
    /\ owner' = Set(owner, token_id, to)
    /\ approval' = Remove(approval, token_id)
    /\ provenance' = Set(provenance, token_id,
          Append(GetOr(provenance, token_id, <<>>),
                 PROVENANCERecord(now, from, to, "transfer_from", "Approved transfer")))

TransferFrom ==
    \E signer \in Addr, spender \in Addr, from \in Addr, to \in Addr, token_id \in TokenIds :
        /\ TransferFromResult(signer, spender, from, token_id) = "ok"
        /\ Len(GetOr(provenance, token_id, <<>>)) < MaxProv
        /\ TransferFromWrites(from, to, token_id)
        /\ last' = Call("transfer_from", [signer |-> signer, spender |-> spender,
                           from |-> from, to |-> to, token_id |-> token_id])
        /\ UNCHANGED <<nftInstance, metadata, mktVars, now, sfVars>>

(***************************************************************************)
(* Marketplace                                                             *)
(***************************************************************************)
Listing(seller, nft_contract, token_id, price, active, created_at) ==
    [seller |-> seller, nft_contract |-> nft_contract, token_id |-> token_id,
     price |-> price, active |-> active, created_at |-> created_at]

Auction(seller, nft_contract, token_id, starting_price, current_bid, highest_bidder, start_time, end_time, active) ==
    [seller |-> seller, nft_contract |-> nft_contract, token_id |-> token_id,
     starting_price |-> starting_price, current_bid |-> current_bid,
     highest_bidder |-> highest_bidder, start_time |-> start_time,
     end_time |-> end_time, active |-> active]

\* Mutant of Bid: the amount is not recorded.
Bid_AmountDropped(bidder, amount, timestamp) ==
    [bidder |-> bidder, amount |-> 0, timestamp |-> timestamp]

Bid(bidder, amount, timestamp) ==
    [bidder |-> bidder, amount |-> amount, timestamp |-> timestamp]

get_total_listings == GetOr(mktInstance, "LIST_CNT", 0)

get_total_auctions == GetOr(mktInstance, "AUCT_CNT", 0)

\* initialize: panics when ADMIN is already set.
MktInitializeResult ==
    IF Has(mktInstance, "ADMIN") THEN "AlreadyInitialized" ELSE "ok"

MktInitialize ==
    \E admin \in Addr, fee_percentage \in FeePercentages :
        /\ MktInitializeResult = "ok"
        /\ mktInstance' =
             Set(Set(Set(Set(mktInstance, "ADMIN", admin), "FEE_PCT", fee_percentage),
                 "LIST_CNT", 0), "AUCT_CNT", 0)
        /\ last' = Call("mkt_initialize", [admin |-> admin])
        /\ UNCHANGED <<nftVars, listing, auction, bids, now, sfVars>>

\* list_nft: seller.require_auth(), price <= 0, key presence.
ListNftResult(signer, seller, nft_contract, token_id, price) ==
    IF signer # seller THEN "Unauthorized"
    ELSE IF price <= 0 THEN "InvalidParameter"
    ELSE IF Has(listing, <<nft_contract, token_id>>) THEN "AlreadyListed"
    ELSE "ok"

ListNft ==
    \E signer \in Addr, seller \in Addr, nft_contract \in NftContracts,
       token_id \in TokenIds, price \in Amounts :
        /\ ListNftResult(signer, seller, nft_contract, token_id, price) = "ok"
        /\ listing' = Set(listing, <<nft_contract, token_id>>,
                          Listing(seller, nft_contract, token_id, price, TRUE, now))
        /\ mktInstance' = Set(mktInstance, "LIST_CNT", get_total_listings + 1)
        /\ last' = Call("list_nft", [signer |-> signer, seller |-> seller,
                           nft_contract |-> nft_contract, token_id |-> token_id,
                           price |-> price])
        /\ UNCHANGED <<nftVars, auction, bids, now, sfVars>>

\* Mutant of BuyNftResult: the active flag is not tested.
BuyNftResult_NoActiveCheck(signer, buyer, nft_contract, token_id) ==
    IF signer # buyer THEN "Unauthorized"
    ELSE IF ~Has(listing, <<nft_contract, token_id>>) THEN "NotListed"
    ELSE IF listing[<<nft_contract, token_id>>].seller = buyer THEN "SelfPurchase"
    ELSE "ok"

\* Mutant of BuyNftResult: the seller may buy its own listing.
BuyNftResult_NoSelfCheck(signer, buyer, nft_contract, token_id) ==
    IF signer # buyer THEN "Unauthorized"
    ELSE IF ~Has(listing, <<nft_contract, token_id>>) THEN "NotListed"
    ELSE IF ~listing[<<nft_contract, token_id>>].active THEN "NotActive"
    ELSE "ok"

\* buy_nft: buyer.require_auth(), listing read, active, seller == buyer.
BuyNftResult(signer, buyer, nft_contract, token_id) ==
    IF signer # buyer THEN "Unauthorized"
    ELSE IF ~Has(listing, <<nft_contract, token_id>>) THEN "NotListed"
    ELSE IF ~listing[<<nft_contract, token_id>>].active THEN "NotActive"
    ELSE IF listing[<<nft_contract, token_id>>].seller = buyer THEN "SelfPurchase"
    ELSE "ok"

\* The writes of a successful buy_nft: the listing's active flag and nothing
\* else (the payment, the NFT transfer and the royalties are TODO comments).
BuyNftWrites(nft_contract, token_id) ==
    /\ listing' = Set(listing, <<nft_contract, token_id>>,
                      [listing[<<nft_contract, token_id>>] EXCEPT !.active = FALSE])
    /\ UNCHANGED <<nftVars, mktInstance, auction, bids>>

BuyNft ==
    \E signer \in Addr, buyer \in Addr, nft_contract \in NftContracts,
       token_id \in TokenIds :
        /\ BuyNftResult(signer, buyer, nft_contract, token_id) = "ok"
        /\ BuyNftWrites(nft_contract, token_id)
        /\ last' = Call("buy_nft", [signer |-> signer, buyer |-> buyer,
                           nft_contract |-> nft_contract, token_id |-> token_id])
        /\ UNCHANGED <<now, sfVars>>

\* Mutant of CreateAuctionResult: a duration of 0 is accepted.
CreateAuctionResult_NoDurationCheck(signer, seller, nft_contract, token_id, starting_price, duration) ==
    IF signer # seller THEN "Unauthorized"
    ELSE IF starting_price <= 0 THEN "InvalidParameter"
    ELSE IF Has(auction, <<nft_contract, token_id>>) THEN "AlreadyInAuction"
    ELSE "ok"

\* create_auction: seller.require_auth(), starting_price <= 0, duration == 0,
\* key presence.
CreateAuctionResult(signer, seller, nft_contract, token_id, starting_price, duration) ==
    IF signer # seller THEN "Unauthorized"
    ELSE IF starting_price <= 0 THEN "InvalidParameter"
    ELSE IF duration = 0 THEN "InvalidParameter"
    ELSE IF Has(auction, <<nft_contract, token_id>>) THEN "AlreadyInAuction"
    ELSE "ok"

CreateAuction ==
    \E signer \in Addr, seller \in Addr, nft_contract \in NftContracts,
       token_id \in TokenIds, starting_price \in Amounts, duration \in Durations :
        /\ CreateAuctionResult(signer, seller, nft_contract, token_id,
                               starting_price, duration) = "ok"
        /\ auction' = Set(auction, <<nft_contract, token_id>>,
                          Auction(seller, nft_contract, token_id, starting_price, 0,
                                  seller, now, now + duration, TRUE))
        /\ mktInstance' = Set(mktInstance, "AUCT_CNT", get_total_auctions + 1)
        /\ last' = Call("create_auction", [signer |-> signer, seller |-> seller,
                           nft_contract |-> nft_contract, token_id |-> token_id,
                           starting_price |-> starting_price, duration |-> duration])
        /\ UNCHANGED <<nftVars, listing, bids, now, sfVars>>

\* Mutant of HasEnded: `>` for `>=`.
HasEnded_Strict(timestamp, end_time) == timestamp > end_time

\* `env.ledger().timestamp() >= auction.end_time` of bid.
HasEnded(timestamp, end_time) == timestamp >= end_time

\* Mutant of NotHigherThanCurrent: `<` for `<=`.
NotHigherThanCurrent_Strict(amount, current_bid) == amount < current_bid

\* `amount <= auction.current_bid` of bid.
NotHigherThanCurrent(amount, current_bid) == amount <= current_bid

\* Mutant of BelowStartingPrice: the starting price is not enforced.
BelowStartingPrice_Never(amount, starting_price) == FALSE

\* Mutant of BelowStartingPrice: `<=` for `<`.
BelowStartingPrice_OrEqual(amount, starting_price) == amount <= starting_price

\* `amount < auction.starting_price` of bid.
BelowStartingPrice(amount, starting_price) == amount < starting_price

\* bid: bidder.require_auth(), auction read, active, end time, the two amount checks.
BidResult(signer, bidder, nft_contract, token_id, amount) ==
    IF signer # bidder THEN "Unauthorized"
    ELSE IF ~Has(auction, <<nft_contract, token_id>>) THEN "NotFound"
    ELSE IF ~auction[<<nft_contract, token_id>>].active THEN "NotActive"
    ELSE IF HasEnded(now, auction[<<nft_contract, token_id>>].end_time)
         THEN "AuctionEnded"
    ELSE IF NotHigherThanCurrent(amount, auction[<<nft_contract, token_id>>].current_bid)
         THEN "BidTooLow"
    ELSE IF BelowStartingPrice(amount, auction[<<nft_contract, token_id>>].starting_price)
         THEN "BidTooLow"
    ELSE "ok"

BidAction ==
    \E signer \in Addr, bidder \in Addr, nft_contract \in NftContracts,
       token_id \in TokenIds, amount \in Amounts :
        /\ BidResult(signer, bidder, nft_contract, token_id, amount) = "ok"
        /\ auction' = Set(auction, <<nft_contract, token_id>>,
                          [auction[<<nft_contract, token_id>>]
                             EXCEPT !.current_bid = amount, !.highest_bidder = bidder])
        /\ bids' = Set(bids, <<nft_contract, token_id, bidder>>, Bid(bidder, amount, now))
        /\ last' = Call("bid", [signer |-> signer, bidder |-> bidder,
                           nft_contract |-> nft_contract, token_id |-> token_id,
                           amount |-> amount])
        /\ UNCHANGED <<nftVars, mktInstance, listing, now, sfVars>>

\* Mutant of NotEndedYet: `<=` for `<`.
NotEndedYet_OrEqual(timestamp, end_time) == timestamp <= end_time

\* `env.ledger().timestamp() < auction.end_time` of end_auction.
NotEndedYet(timestamp, end_time) == timestamp < end_time

\* Mutant of EndAuctionResult: an auction without bids cannot be ended.
EndAuctionResult_NeedsBids(nft_contract, token_id) ==
    IF ~Has(auction, <<nft_contract, token_id>>) THEN "NotFound"
    ELSE IF ~auction[<<nft_contract, token_id>>].active THEN "NotActive"
    ELSE IF NotEndedYet(now, auction[<<nft_contract, token_id>>].end_time)
         THEN "TooEarly"
    ELSE IF auction[<<nft_contract, token_id>>].current_bid = 0 THEN "NoBids"
    ELSE "ok"

\* Mutant of EndAuctionResult: the active flag is not tested.
EndAuctionResult_NoActiveCheck(nft_contract, token_id) ==
    IF ~Has(auction, <<nft_contract, token_id>>) THEN "NotFound"
    ELSE IF NotEndedYet(now, auction[<<nft_contract, token_id>>].end_time)
         THEN "TooEarly"
    ELSE "ok"

\* end_auction: no require_auth; auction read, active, end time.
EndAuctionResult(nft_contract, token_id) ==
    IF ~Has(auction, <<nft_contract, token_id>>) THEN "NotFound"
    ELSE IF ~auction[<<nft_contract, token_id>>].active THEN "NotActive"
    ELSE IF NotEndedYet(now, auction[<<nft_contract, token_id>>].end_time)
         THEN "TooEarly"
    ELSE "ok"

\* The writes of a successful end_auction: the auction's active flag and
\* nothing else (the settlement under `current_bid > 0` is TODO comments).
EndAuctionWrites(nft_contract, token_id) ==
    /\ auction' = Set(auction, <<nft_contract, token_id>>,
                      [auction[<<nft_contract, token_id>>] EXCEPT !.active = FALSE])
    /\ UNCHANGED <<nftVars, mktInstance, listing, bids>>

EndAuction ==
    \E nft_contract \in NftContracts, token_id \in TokenIds :
        /\ EndAuctionResult(nft_contract, token_id) = "ok"
        /\ EndAuctionWrites(nft_contract, token_id)
        /\ last' = Call("end_auction", [nft_contract |-> nft_contract,
                                        token_id |-> token_id])
        /\ UNCHANGED <<now, sfVars>>

\* Mutant of CancelListingResult: the recorded seller is not compared.
CancelListingResult_NoSellerCheck(signer, seller, nft_contract, token_id) ==
    IF signer # seller THEN "Unauthorized"
    ELSE IF ~Has(listing, <<nft_contract, token_id>>) THEN "NotFound"
    ELSE IF ~listing[<<nft_contract, token_id>>].active THEN "NotActive"
    ELSE "ok"

\* cancel_listing: seller.require_auth(), listing read, seller, active.
CancelListingResult(signer, seller, nft_contract, token_id) ==
    IF signer # seller THEN "Unauthorized"
    ELSE IF ~Has(listing, <<nft_contract, token_id>>) THEN "NotFound"
    ELSE IF listing[<<nft_contract, token_id>>].seller # seller THEN "Unauthorized"
    ELSE IF ~listing[<<nft_contract, token_id>>].active THEN "NotActive"
    ELSE "ok"

CancelListing ==
    \E signer \in Addr, seller \in Addr, nft_contract \in NftContracts,
       token_id \in TokenIds :
        /\ CancelListingResult(signer, seller, nft_contract, token_id) = "ok"
        /\ listing' = Set(listing, <<nft_contract, token_id>>,
                          [listing[<<nft_contract, token_id>>] EXCEPT !.active = FALSE])
        /\ last' = Call("cancel_listing", [signer |-> signer, seller |-> seller,
                           nft_contract |-> nft_contract, token_id |-> token_id])
        /\ UNCHANGED <<nftVars, mktInstance, auction, bids, now, sfVars>>

\* Mutant of CancelAuctionResult: the `current_bid > 0` check is missing.
CancelAuctionResult_NoBidsCheck(signer, seller, nft_contract, token_id) ==
    IF signer # seller THEN "Unauthorized"
    ELSE IF ~Has(auction, <<nft_contract, token_id>>) THEN "NotFound"
    ELSE IF auction[<<nft_contract, token_id>>].seller # seller THEN "Unauthorized"
    ELSE IF ~auction[<<nft_contract, token_id>>].active THEN "NotActive"
    ELSE "ok"

\* cancel_auction: seller.require_auth(), auction read, seller, active, bids.
CancelAuctionResult(signer, seller, nft_contract, token_id) ==
    IF signer # seller THEN "Unauthorized"
    ELSE IF ~Has(auction, <<nft_contract, token_id>>) THEN "NotFound"
    ELSE IF auction[<<nft_contract, token_id>>].seller # seller THEN "Unauthorized"
    ELSE IF ~auction[<<nft_contract, token_id>>].active THEN "NotActive"
    ELSE IF auction[<<nft_contract, token_id>>].current_bid > 0 THEN "HasBids"
    ELSE "ok"

CancelAuction ==
    \E signer \in Addr, seller \in Addr, nft_contract \in NftContracts,
       token_id \in TokenIds :
        /\ CancelAuctionResult(signer, seller, nft_contract, token_id) = "ok"
        /\ auction' = Set(auction, <<nft_contract, token_id>>,
                          [auction[<<nft_contract, token_id>>] EXCEPT !.active = FALSE])
        /\ last' = Call("cancel_auction", [signer |-> signer, seller |-> seller,
                           nft_contract |-> nft_contract, token_id |-> token_id])
        /\ UNCHANGED <<nftVars, mktInstance, listing, bids, now, sfVars>>

(***************************************************************************)
(* The ledger clock                                                        *)
(***************************************************************************)
Tick ==
    /\ now < MaxTime
    /\ now' = now + 1
    /\ last' = Call("tick", [t |-> now + 1])
    /\ UNCHANGED <<nftVars, mktVars, sfVars>>

(***************************************************************************)
(* SocialFi                                                                *)
(***************************************************************************)
Reward(id, name, description, points_cost, available, max_redemptions, current_redemptions) ==
    [id |-> id, name |-> name, description |-> description,
     points_cost |-> points_cost, available |-> available,
     max_redemptions |-> max_redemptions, current_redemptions |-> current_redemptions]

ActivityRecord(user, activity_type, points_awarded, timestamp, description) ==
    [user |-> user, activity_type |-> activity_type, points_awarded |-> points_awarded,
     timestamp |-> timestamp, description |-> description]

\* The value `x` is outside the range of an i128.
Overflows(x) == x > MaxBalance \/ x < -(MaxBalance + 1)

\* The i128 a build without overflow checks computes for the exact value `x`.
Wrapped(x) == ((x + (MaxBalance + 1)) % (2 * (MaxBalance + 1))) - (MaxBalance + 1)

get_points_balance(user) == GetOr(points, user, 0)

get_total_rewards == GetOr(sfInstance, "REWARD_CN", 0)

\* initialize: panics when ADMIN is already set.
SfInitializeResult ==
    IF Has(sfInstance, "ADMIN") THEN "AlreadyInitialized" ELSE "ok"

SfInitialize ==
    \E admin \in Addr :
        /\ SfInitializeResult = "ok"
        /\ sfInstance' = Set(Set(Set(sfInstance, "ADMIN", admin), "BADGE_CNT", 0),
                             "REWARD_CN", 0)
        /\ last' = Call("sf_initialize", [admin |-> admin])
        /\ UNCHANGED <<nftVars, mktVars, points, rewards, activity, overflow_checks, now>>

\* award_points: admin read (unwrap), admin.require_auth(), points <= 0, and
\* the addition `current_balance + points`, which panics on overflow in a
\* build with overflow checks.
AwardPointsResult(signer, user, pts) ==
    IF ~Has(sfInstance, "ADMIN") THEN "NotInitialized"
    ELSE IF signer # sfInstance["ADMIN"] THEN "Unauthorized"
    ELSE IF pts <= 0 THEN "InvalidParameter"
    ELSE IF overflow_checks /\ Overflows(get_points_balance(user) + pts) THEN "Overflow"
    ELSE "ok"

AwardPoints ==
    \E signer \in Addr, user \in Users, pts \in Amounts :
        /\ AwardPointsResult(signer, user, pts) = "ok"
        /\ points' = Set(points, user, Wrapped(get_points_balance(user) + pts))
        /\ activity' = Set(activity, <<user, now>>,
                           ActivityRecord(user, "points_awarded", pts, now, "reason"))
        /\ last' = Call("award_points", [signer |-> signer, user |-> user, points |-> pts])
        /\ UNCHANGED <<nftVars, mktVars, sfInstance, rewards, overflow_checks, now>>

\* create_reward: admin read (unwrap), admin.require_auth(); any cost and any
\* max_redemptions are accepted.
CreateRewardResult(signer) ==
    IF ~Has(sfInstance, "ADMIN") THEN "NotInitialized"
    ELSE IF signer # sfInstance["ADMIN"] THEN "Unauthorized"
    ELSE "ok"

CreateReward ==
    \E signer \in Addr, points_cost \in Amounts, max_redemptions \in Redemptions :
        /\ CreateRewardResult(signer) = "ok"
        /\ get_total_rewards + 1 \in RewardIds
        /\ sfInstance' = Set(sfInstance, "REWARD_CN", get_total_rewards + 1)
        /\ rewards' = Set(rewards, get_total_rewards + 1,
                          Reward(get_total_rewards + 1, "name", "description",
                                 points_cost, TRUE, max_redemptions, 0))
        /\ last' = Call("create_reward", [signer |-> signer,
                           reward_id |-> get_total_rewards + 1])
        /\ UNCHANGED <<nftVars, mktVars, points, activity, overflow_checks, now>>

\* Mutant of RedeemPointsResult: the balance is not compared with the cost.
RedeemPointsResult_NoBalanceCheck(signer, user, reward_id) ==
    IF signer # user THEN "Unauthorized"
    ELSE IF ~Has(rewards, reward_id) THEN "NotFound"
    ELSE IF ~rewards[reward_id].available THEN "NotAvailable"
    ELSE IF rewards[reward_id].current_redemptions >= rewards[reward_id].max_redemptions
         THEN "SoldOut"
    ELSE IF overflow_checks
            /\ Overflows(get_points_balance(user) - rewards[reward_id].points_cost)
         THEN "Overflow"
    ELSE "ok"

\* redeem_points: user.require_auth(), reward read, available, sold out,
\* balance < cost, and the subtraction `user_balance - reward.points_cost`.
RedeemPointsResult(signer, user, reward_id) ==
    IF signer # user THEN "Unauthorized"
    ELSE IF ~Has(rewards, reward_id) THEN "NotFound"
    ELSE IF ~rewards[reward_id].available THEN "NotAvailable"
    ELSE IF rewards[reward_id].current_redemptions >= rewards[reward_id].max_redemptions
         THEN "SoldOut"
    ELSE IF get_points_balance(user) < rewards[reward_id].points_cost
         THEN "InsufficientPoints"
    ELSE IF overflow_checks
            /\ Overflows(get_points_balance(user) - rewards[reward_id].points_cost)
         THEN "Overflow"
    ELSE "ok"

RedeemPoints ==
    \E signer \in Addr, user \in Users, reward_id \in RewardIds :
        /\ RedeemPointsResult(signer, user, reward_id) = "ok"
        /\ points' = Set(points, user,
                         Wrapped(get_points_balance(user) - rewards[reward_id].points_cost))
        /\ rewards' = Set(rewards, reward_id,
                          [rewards[reward_id] EXCEPT
                             !.current_redemptions = rewards[reward_id].current_redemptions + 1])
        /\ activity' = Set(activity, <<user, now>>,
                           ActivityRecord(user, "reward_redeemed",
                                          -rewards[reward_id].points_cost, now,
                                          "Redeemed reward"))
        /\ last' = Call("redeem_points", [signer |-> signer, user |-> user,
                           reward_id |-> reward_id])
        /\ UNCHANGED <<nftVars, mktVars, sfInstance, overflow_checks, now>>

(***************************************************************************)
(* Specifications                                                          *)
(***************************************************************************)
\* A freshly deployed SocialFi contract, built with overflow checks.
SfDeployed ==
    /\ sfInstance = Empty
    /\ points = Empty
    /\ rewards = Empty
    /\ activity = Empty
    /\ overflow_checks = TRUE

Init ==
    /\ nftInstance = Empty
    /\ owner = Empty
    /\ metadata = Empty
    /\ provenance = Empty
    /\ approval = Empty
    /\ mktInstance = Empty
    /\ listing = Empty
    /\ auction = Empty
    /\ bids = Empty
    /\ now = 0
    /\ SfDeployed
    /\ last = Call("deploy", [t |-> 0])

NextNft ==
    \/ NftInitialize
    \/ MintCulturalNft
    \/ Transfer
    \/ Approve
    \/ TransferFrom
    \/ Tick

SpecNft == Init /\ [][NextNft]_vars

\* The marketplace over a registry in which the token has been minted: the
\* registry state after initialize("A", ...) and mint("A", 1, "m1", <<>>).
InitMkt ==
    /\ nftInstance = [k \in {"ADMIN", "NAME", "SYMBOL", "MUS_REG", "TOKEN_CNT"} |->
                        CASE k = "ADMIN" -> "A"
                          [] k = "NAME" -> "PermaMuseum"
                          [] k = "SYMBOL" -> "PMUS"
                          [] k = "MUS_REG" -> MuseumRegistry
                          [] k = "TOKEN_CNT" -> 1]
    /\ owner = [t \in TokenIds |-> "A"]
    /\ metadata = [t \in TokenIds |-> "m1"]
    /\ provenance = [t \in TokenIds |-> <<>>]
    /\ approval = Empty
    /\ mktInstance = Empty
    /\ listing = Empty
    /\ auction = Empty
    /\ bids = Empty
    /\ now = 0
    /\ SfDeployed
    /\ last = Call("deploy", [t |-> 0])

\* The fixed-price track of the marketplace.
NextListing ==
    \/ MktInitialize
    \/ ListNft
    \/ BuyNft
    \/ CancelListing
    \/ Tick

SpecListing == InitMkt /\ [][NextListing]_vars

\* The auction track of the marketplace.
NextAuction ==
    \/ MktInitialize
    \/ CreateAuction
    \/ BidAction
    \/ EndAuction
    \/ CancelAuction
    \/ Tick

SpecAuction == InitMkt /\ [][NextAuction]_vars

\* The auction track with a ledger clock that keeps advancing and an
\* end_auction that is eventually submitted once it can succeed (it needs no
\* authorization, so any party can submit it).
SpecAuctionFair == SpecAuction /\ WF_vars(Tick) /\ WF_vars(EndAuction)

\* The points and rewards store of SocialFi, in either build.
InitSf ==
    /\ nftInstance = Empty
    /\ owner = Empty
    /\ metadata = Empty
    /\ provenance = Empty
    /\ approval = Empty
    /\ mktInstance = Empty
    /\ listing = Empty
    /\ auction = Empty
    /\ bids = Empty
    /\ sfInstance = Empty
    /\ points = Empty
    /\ rewards = Empty
    /\ activity = Empty
    /\ overflow_checks \in BOOLEAN
    /\ now = 0
    /\ last = Call("deploy", [t |-> 0])

NextSocialFi ==
    \/ SfInitialize
    \/ AwardPoints
    \/ CreateReward
    \/ RedeemPoints

SpecSocialFi == InitSf /\ [][NextSocialFi]_vars

\* Both tracks.
NextMkt ==
    \/ MktInitialize
    \/ ListNft
    \/ BuyNft
    \/ CancelListing
    \/ CreateAuction
    \/ BidAction
    \/ EndAuction
    \/ CancelAuction
    \/ Tick

SpecMkt == InitMkt /\ [][NextMkt]_vars

Next == NextNft \/ NextMkt \/ NextSocialFi

Spec == Init /\ [][Next]_vars

(***************************************************************************)
(* Properties                                                              *)
(***************************************************************************)
AssetRefs == NftContracts \X TokenIds

\* The step is a successful invocation of `op` on token `token_id`.
Invoked(op, token_id) == last'.op = op /\ last'.args.token_id = token_id

IsActiveAuction(ref) == Has(auction, ref) /\ auction[ref].active

IsActiveListing(ref) == Has(listing, ref) /\ listing[ref].active

\* C1: the recorded owner of a token is the `to` of the most recent successful
\* transfer or transfer_from on it, or the mint recipient when there has been
\* none: a transfer, transfer_from or mint step leaves its `to` as the owner,
\* and every other step leaves the owner record as it was.
C1_OwnerIsLastTransferTarget ==
    [][\A id \in TokenIds :
         IF Invoked("transfer", id) \/ Invoked("transfer_from", id) \/ Invoked("mint", id)
         THEN id \in DOMAIN owner' /\ owner'[id] = last'.args.to
         ELSE /\ (id \in DOMAIN owner') = (id \in DOMAIN owner)
              /\ id \in DOMAIN owner => owner'[id] = owner[id]]_vars

\* C1 witness: a second change of owner (a transfer_from after a transfer to
\* someone else) has just happened and the owner is its target.
C1_Witness ==
    \E id \in DOMAIN owner :
        /\ last.op = "transfer_from" /\ last.args.token_id = id
        /\ Len(provenance[id]) = 2
        /\ provenance[id][1].transaction_type = "transfer"
        /\ provenance[id][1].to # provenance[id][2].to
        /\ owner[id] = provenance[id][2].to

\* C2 (as claimed): after a successful transfer or transfer_from that changes
\* the owner of a token no approval is outstanding for that token.
C2_ApprovalClearedOnOwnerChange ==
    \A id \in TokenIds :
        (/\ last.op \in {"transfer", "transfer_from"}
         /\ last.args.token_id = id
         /\ last.args.from # last.args.to)
            => ~Has(approval, id)

\* C3 (as claimed): no asset reference has an active listing and an active
\* auction at the same time.
C3_NoActiveListingAndAuction ==
    \A ref \in AssetRefs : ~(IsActiveListing(ref) /\ IsActiveAuction(ref))

\* C4: accepted bids are strictly increasing.  In every state a bid of an
\* amount <= current_bid is rejected, with BidTooLow when the auction is active
\* and unexpired; and in every step current_bid does not decrease, a bid step
\* setting it to an amount strictly above the previous one.
C4_BidsStrictlyIncreasing ==
    /\ [](\A ref \in DOMAIN auction : \A bidder \in Addr, amount \in Amounts :
            amount <= auction[ref].current_bid =>
              /\ BidResult(bidder, bidder, ref[1], ref[2], amount) # "ok"
              /\ (auction[ref].active /\ now < auction[ref].end_time)
                   => BidResult(bidder, bidder, ref[1], ref[2], amount) = "BidTooLow")
    /\ [][\A ref \in DOMAIN auction :
            /\ ref \in DOMAIN auction'
            /\ auction'[ref].current_bid >= auction[ref].current_bid
            /\ Invoked("bid", ref[2]) =>
                 /\ auction'[ref].current_bid = last'.args.amount
                 /\ auction'[ref].highest_bidder = last'.args.bidder
                 /\ last'.args.amount > auction[ref].current_bid
            /\ ~Invoked("bid", ref[2]) =>
                 /\ auction'[ref].current_bid = auction[ref].current_bid
                 /\ auction'[ref].highest_bidder = auction[ref].highest_bidder]_vars

\* C4 witness: a second bid has been accepted above the first, and a bid of the
\* current amount is now rejected with BidTooLow.
C4_Witness ==
    \E ref \in DOMAIN auction : \E b \in Addr :
        /\ last.op = "bid" /\ last.args.token_id = ref[2]
        /\ auction[ref].current_bid = last.args.amount
        /\ b # auction[ref].highest_bidder
        /\ Has(bids, <<ref[1], ref[2], b>>)
        /\ bids[<<ref[1], ref[2], b>>].amount < auction[ref].current_bid
        /\ BidResult(b, b, ref[1], ref[2], auction[ref].current_bid) = "BidTooLow"

\* C5 (as claimed): every auction has highest_bidder = seller when
\* current_bid = 0 and highest_bidder # seller when current_bid > 0.
C5_SellerNeverHighestBidder ==
    \A ref \in DOMAIN auction :
        /\ auction[ref].current_bid = 0 => auction[ref].highest_bidder = auction[ref].seller
        /\ auction[ref].current_bid > 0 => auction[ref].highest_bidder # auction[ref].seller

\* C6: on an active auction end_auction fails TooEarly at every time before
\* end_time and succeeds at every time from end_time on; a successful
\* end_auction happens at or after end_time, on an active auction, and leaves
\* it inactive.
C6_EndAuctionOnlyAtOrAfterEnd ==
    /\ [](\A ref \in DOMAIN auction :
            auction[ref].active =>
              /\ now < auction[ref].end_time => EndAuctionResult(ref[1], ref[2]) = "TooEarly"
              /\ now >= auction[ref].end_time => EndAuctionResult(ref[1], ref[2]) = "ok")
    /\ [][\A ref \in DOMAIN auction :
            Invoked("end_auction", ref[2]) =>
              /\ auction[ref].active
              /\ now >= auction[ref].end_time
              /\ ~auction'[ref].active]_vars

\* C6 witness: an auction has just been ended exactly at its end_time.
C6_Witness ==
    \E ref \in DOMAIN auction :
        /\ last.op = "end_auction" /\ last.args.token_id = ref[2]
        /\ now = auction[ref].end_time
        /\ ~auction[ref].active

C8_BuyTransfersAsset ==
    [][\A ref \in DOMAIN listing :
         Invoked("buy_nft", ref[2]) =>
           /\ ~listing'[ref].active
           /\ owner'[ref[2]] = last'.args.buyer
           /\ Len(provenance'[ref[2]]) = Len(provenance[ref[2]]) + 1]_vars

\* C9 (as claimed): a successful end_auction with current_bid > 0 leaves the
\* registry's owner of the asset equal to the highest bidder and the provenance
\* one record longer; with current_bid = 0 it leaves both unchanged.
C9_EndAuctionSettles ==
    [][\A ref \in DOMAIN auction :
         Invoked("end_auction", ref[2]) =>
           IF auction[ref].current_bid > 0
           THEN /\ owner'[ref[2]] = auction[ref].highest_bidder
                /\ Len(provenance'[ref[2]]) = Len(provenance[ref[2]]) + 1
           ELSE UNCHANGED <<owner, provenance>>]_vars

\* C10: a transfer whose `from` is not the recorded owner of an existing token
\* fails Unauthorized, whoever signs it; every successful transfer is made by
\* the recorded owner; and right after a successful transfer(A, B, id) with
\* A # B the same transfer fails Unauthorized.
C10_TransferByNonOwnerFails ==
    /\ [](\A id \in DOMAIN owner : \A signer \in Addr, from \in Addr :
            from # owner[id] => TransferResult(signer, from, id) = "Unauthorized")
    /\ [](\A id \in DOMAIN owner :
            (last.op = "transfer" /\ last.args.token_id = id
               /\ last.args.from # last.args.to)
              => TransferResult(last.args.from, last.args.from, id) = "Unauthorized")
    /\ [][\A id \in DOMAIN owner :
            Invoked("transfer", id) => last'.args.from = owner[id]]_vars

\* C10 witness: transfer(A, B, id) with A # B has just succeeded, B is the
\* owner, and the same call would now fail Unauthorized.
C10_Witness ==
    \E id \in DOMAIN owner :
        /\ last.op = "transfer" /\ last.args.token_id = id
        /\ last.args.from # last.args.to
        /\ owner[id] = last.args.to
        /\ Len(provenance[id]) = 1
        /\ TransferResult(last.args.from, last.args.from, id) = "Unauthorized"

\* C11: the provenance of a token is append-only.  A successful transfer or
\* transfer_from appends exactly one record, carrying its `from` and `to`, and
\* keeps the earlier records as a prefix; every other step leaves the
\* provenance of an existing token as it was, and no step removes it.
C11_ProvenanceAppendOnly ==
    [][\A id \in DOMAIN provenance :
         /\ id \in DOMAIN provenance'
         /\ IF Invoked("transfer", id) \/ Invoked("transfer_from", id)
            THEN /\ Len(provenance'[id]) = Len(provenance[id]) + 1
                 /\ SubSeq(provenance'[id], 1, Len(provenance[id])) = provenance[id]
                 /\ provenance'[id][Len(provenance'[id])].from = last'.args.from
                 /\ provenance'[id][Len(provenance'[id])].to = last'.args.to
            ELSE provenance'[id] = provenance[id]]_vars

\* C11 witness: a token minted with one initial record has been moved by
\* transfer_from, and its provenance is the initial record followed by the
\* record of that move.
C11_Witness ==
    \E id \in DOMAIN provenance :
        /\ last.op = "transfer_from" /\ last.args.token_id = id
        /\ Len(provenance[id]) = 2
        /\ provenance[id][1].transaction_type = "origin"
        /\ provenance[id][2].transaction_type = "transfer_from"
        /\ provenance[id][2].to = last.args.to

\* C12: on an active auction with current_bid > 0 every cancel_auction is
\* rejected, with HasBids when it comes from the recorded seller; on an active
\* auction with no bids the recorded seller's cancel_auction succeeds.  A
\* successful cancel_auction is the seller's, on an active auction with no
\* bids, and deactivates it; an auction that has a bid leaves the active state
\* only by an end_auction at or after end_time.
C12_CancelOnlyWithoutBids ==
    /\ [](\A ref \in DOMAIN auction : \A signer \in Addr, seller \in Addr :
            auction[ref].active =>
              /\ auction[ref].current_bid > 0 =>
                   /\ CancelAuctionResult(signer, seller, ref[1], ref[2]) # "ok"
                   /\ (signer = seller /\ seller = auction[ref].seller) =>
                        CancelAuctionResult(signer, seller, ref[1], ref[2]) = "HasBids"
              /\ (auction[ref].current_bid = 0 /\ signer = seller
                    /\ seller = auction[ref].seller) =>
                   CancelAuctionResult(signer, seller, ref[1], ref[2]) = "ok")
    /\ [][\A ref \in DOMAIN auction :
            /\ Invoked("cancel_auction", ref[2]) =>
                 /\ auction[ref].active
                 /\ auction[ref].current_bid = 0
                 /\ last'.args.seller = auction[ref].seller
                 /\ ~auction'[ref].active
            /\ (auction[ref].active /\ auction[ref].current_bid > 0
                  /\ ~auction'[ref].active) =>
                 (Invoked("end_auction", ref[2]) /\ now >= auction[ref].end_time)]_vars

\* C12 witness: a bid has just been accepted on an active auction, and the
\* seller's cancel_auction now fails HasBids.
C12_Witness ==
    \E ref \in DOMAIN auction :
        /\ last.op = "bid" /\ last.args.token_id = ref[2]
        /\ auction[ref].active
        /\ auction[ref].current_bid > 0
        /\ CancelAuctionResult(auction[ref].seller, auction[ref].seller, ref[1], ref[2])
             = "HasBids"

\* C13: a successful transfer_from is made with `from` the recorded owner and
\* by the spender stored as the approval of the token, and it removes that
\* approval; with no approval stored every transfer_from fails Unauthorized,
\* so right after a successful transfer_from the same spender cannot move the
\* token again.
C13_TransferFromNeedsApproval ==
    /\ [][\A id \in DOMAIN owner :
            Invoked("transfer_from", id) =>
              /\ last'.args.from = owner[id]
              /\ Has(approval, id)
              /\ approval[id] = last'.args.spender
              /\ last'.args.signer = last'.args.spender
              /\ id \notin DOMAIN approval']_vars
    /\ [](\A id \in DOMAIN owner : \A signer \in Addr, spender \in Addr, from \in Addr :
            (~Has(approval, id) \/ from # owner[id])
              => TransferFromResult(signer, spender, from, id) = "Unauthorized")
    /\ [](\A id \in DOMAIN owner : \A from \in Addr :
            (last.op = "transfer_from" /\ last.args.token_id = id)
              => TransferFromResult(last.args.spender, last.args.spender, from, id)
                   = "Unauthorized")

\* C13 witness: a transfer_from has just succeeded, the approval is gone, and
\* a second transfer_from by the same spender from the new owner fails.
C13_Witness ==
    \E id \in DOMAIN owner :
        /\ last.op = "transfer_from" /\ last.args.token_id = id
        /\ last.args.spender # last.args.from
        /\ owner[id] = last.args.to
        /\ ~Has(approval, id)
        /\ TransferFromResult(last.args.spender, last.args.spender, owner[id], id)
             = "Unauthorized"

\* C14: a successful approve is made by the recorded owner of an existing
\* token and stores its delegate as the one approval of the token, whatever
\* was stored before; every step that is not an approve or a transfer_from of
\* the token leaves its approval as it was; and only the stored delegate can
\* pass transfer_from, so a replaced delegate no longer can.
C14_ApproveByOwnerSingleDelegate ==
    /\ [][\A id \in TokenIds :
            IF Invoked("approve", id)
            THEN /\ Has(owner, id)
                 /\ last'.args.from = owner[id]
                 /\ last'.args.signer = last'.args.from
                 /\ id \in DOMAIN approval'
                 /\ approval'[id] = last'.args.to
            ELSE IF Invoked("transfer_from", id)
            THEN id \notin DOMAIN approval'
            ELSE /\ (id \in DOMAIN approval') = (id \in DOMAIN approval)
                 /\ id \in DOMAIN approval => approval'[id] = approval[id]]_vars
    /\ [](\A id \in DOMAIN approval : \A spender \in Addr, from \in Addr :
            spender # approval[id]
              => TransferFromResult(spender, spender, from, id) # "ok")
    /\ [](\A id \in TokenIds : \A signer \in Addr, from \in Addr :
            (~Has(owner, id) \/ from # GetOr(owner, id, from))
              => ApproveResult(signer, from, id) # "ok")

\* C14 witness: the owner has just approved a delegate other than itself; that
\* delegate can move the token and another principal cannot.
C14_Witness ==
    \E id \in DOMAIN approval : \E other \in Addr :
        /\ last.op = "approve" /\ last.args.token_id = id
        /\ approval[id] = last.args.to
        /\ last.args.to # last.args.from
        /\ owner[id] = last.args.from
        /\ other # approval[id]
        /\ TransferFromResult(approval[id], approval[id], owner[id], id) = "ok"
        /\ TransferFromResult(other, other, owner[id], id) = "Unauthorized"

\* C15: list_nft by an authorized seller with a positive price fails
\* AlreadyListed exactly when an active listing exists for the asset, so after
\* a sale or a cancellation the asset can be listed again.
C15_AlreadyListedIffActive ==
    \A ref \in AssetRefs : \A seller \in Addr, price \in Amounts :
        price > 0 =>
          ((ListNftResult(seller, seller, ref[1], ref[2], price) = "AlreadyListed")
             <=> IsActiveListing(ref))

\* C16: create_auction by an authorized seller with a positive starting price
\* and duration fails AlreadyInAuction exactly when an active auction exists
\* for the asset, so after an auction was ended or cancelled a new one can be
\* created.
C16_AlreadyInAuctionIffActive ==
    \A ref \in AssetRefs : \A seller \in Addr, sp \in Amounts, d \in Durations :
        (sp > 0 /\ d > 0) =>
          ((CreateAuctionResult(seller, seller, ref[1], ref[2], sp, d) = "AlreadyInAuction")
             <=> IsActiveAuction(ref))

\* C17: buy_nft on an active listing by the listing's own seller fails
\* SelfPurchase; no successful buy_nft has the seller as the buyer, and a
\* listing changes only by a list_nft, a buy_nft by another principal or a
\* cancel_listing by the seller, so the refused purchase leaves it active
\* with its seller and price.
C17_SelfPurchaseRejected ==
    /\ [](\A ref \in AssetRefs :
            IsActiveListing(ref) =>
              BuyNftResult(listing[ref].seller, listing[ref].seller, ref[1], ref[2])
                = "SelfPurchase")
    /\ [][\A ref \in DOMAIN listing :
            /\ ref \in DOMAIN listing'
            /\ listing'[ref].seller = listing[ref].seller
            /\ listing'[ref].price = listing[ref].price
            /\ (last'.op = "buy_nft" /\ last'.args.nft_contract = ref[1]
                  /\ last'.args.token_id = ref[2])
                 => /\ listing[ref].active
                    /\ last'.args.buyer # listing[ref].seller
            /\ (listing[ref].active /\ ~listing'[ref].active)
                 => \/ last'.op = "buy_nft" /\ last'.args.buyer # listing[ref].seller
                    \/ last'.op = "cancel_listing"
                         /\ last'.args.seller = listing[ref].seller]_vars

\* C17 witness: a listing has just been created and is active, and its
\* seller's purchase is refused as SelfPurchase while another buyer's is not.
C17_Witness ==
    \E ref \in AssetRefs : \E other \in Addr :
        /\ last.op = "list_nft"
        /\ IsActiveListing(ref)
        /\ other # listing[ref].seller
        /\ BuyNftResult(listing[ref].seller, listing[ref].seller, ref[1], ref[2])
             = "SelfPurchase"
        /\ BuyNftResult(other, other, ref[1], ref[2]) = "ok"

\* C18: a minted token id exists in every later state; no later mint of it
\* succeeds (the administrator's fails AlreadyExists), so no mint step touches
\* an existing token: its metadata stay, its owner and provenance change only
\* by a transfer or transfer_from, and the supply counter moves only by the
\* mint of a new id.
C18_TokenIdsNeverReused ==
    /\ [](\A id \in DOMAIN owner : \A signer \in Addr :
            /\ MintResult(signer, id) # "ok"
            /\ signer = nftInstance["ADMIN"] => MintResult(signer, id) = "AlreadyExists")
    /\ [][/\ \A id \in DOMAIN owner :
               /\ id \in DOMAIN owner'
               /\ ~Invoked("mint", id)
               /\ metadata'[id] = metadata[id]
               /\ (owner'[id] # owner[id] \/ provenance'[id] # provenance[id])
                    => (Invoked("transfer", id) \/ Invoked("transfer_from", id))
          /\ GetOr(nftInstance', "TOKEN_CNT", 0) # GetOr(nftInstance, "TOKEN_CNT", 0)
               => /\ last'.op = "mint"
                  /\ last'.args.token_id \notin DOMAIN owner
                  /\ GetOr(nftInstance', "TOKEN_CNT", 0)
                       = GetOr(nftInstance, "TOKEN_CNT", 0) + 1]_vars

\* C18 witness: a minted token has since been transferred, and a mint of its
\* id by the administrator is refused as AlreadyExists.
C18_Witness ==
    \E id \in DOMAIN owner :
        /\ last.op = "transfer" /\ last.args.token_id = id
        /\ last.args.from # last.args.to
        /\ total_supply = 1
        /\ MintResult(nftInstance["ADMIN"], id) = "AlreadyExists"

\* The state-changing operations of the registry and of the marketplace.
StateChangingOps ==
    {"mint", "transfer", "approve", "transfer_from", "list_nft", "buy_nft",
     "cancel_listing", "create_auction", "bid", "end_auction", "cancel_auction"}

\* The principal a successful invocation is made for, by operation.
Principal(call) ==
    CASE call.op = "mint" -> {nftInstance["ADMIN"]}
      [] call.op \in {"transfer", "approve"} -> {call.args.from}
      [] call.op = "transfer_from" -> {call.args.spender}
      [] call.op \in {"list_nft", "cancel_listing", "create_auction", "cancel_auction"}
           -> {call.args.seller}
      [] call.op = "buy_nft" -> {call.args.buyer}
      [] call.op = "bid" -> {call.args.bidder}
      [] OTHER -> {}

\* C19: every successful state-changing operation is made for a principal
\* whose authorization was verified: the step's invocation carries a signer
\* and the signer is that principal.
C19_EveryOperationAuthorized ==
    [][last'.op \in StateChangingOps =>
         /\ "signer" \in DOMAIN last'.args
         /\ Principal(last') = {last'.args.signer}]_vars

\* C21: only the stored administrator can mint.  Once the registry is
\* initialized a mint signed by any other principal fails Unauthorized; every
\* successful mint is signed by the stored administrator; and the stored
\* administrator is the one given to the initialize that succeeded, never
\* changed afterwards.
C21_OnlyAdminMints ==
    /\ [](Has(nftInstance, "ADMIN") =>
            \A signer \in Addr, id \in TokenIds :
                signer # nftInstance["ADMIN"] => MintResult(signer, id) = "Unauthorized")
    /\ [][/\ last'.op = "mint" =>
               /\ Has(nftInstance, "ADMIN")
               /\ last'.args.signer = nftInstance["ADMIN"]
          /\ last'.op = "nft_initialize" =>
               /\ ~Has(nftInstance, "ADMIN")
               /\ nftInstance'["ADMIN"] = last'.args.admin
          /\ Has(nftInstance, "ADMIN") =>
               /\ Has(nftInstance', "ADMIN")
               /\ nftInstance'["ADMIN"] = nftInstance["ADMIN"]
          /\ DOMAIN owner' # DOMAIN owner => last'.op = "mint"]_vars

\* C21 witness: the administrator has minted a token, and a mint by another
\* principal is refused as Unauthorized.
C21_Witness ==
    \E other \in Addr, id \in TokenIds :
        /\ last.op = "mint"
        /\ last.args.signer = nftInstance["ADMIN"]
        /\ other # nftInstance["ADMIN"]
        /\ MintResult(other, id) = "Unauthorized"

\* C22 (as claimed): initialize is one-time, and the counters are never reset
\* to 0 once records exist: an initialize succeeds only while the admin key is
\* unset, and the listing counter does not decrease once a listing is stored.
C22_InitializeOnceCountersKept ==
    [][/\ last'.op = "mkt_initialize" => ~Has(mktInstance, "ADMIN")
       /\ Has(mktInstance, "ADMIN") => mktInstance'["ADMIN"] = mktInstance["ADMIN"]
       /\ listing # Empty => get_total_listings' >= get_total_listings]_vars

\* C23: cancel_listing succeeds only for the recorded seller of an active
\* listing.  On an active listing a cancel_listing for any other principal, or
\* signed by another than the principal it names, fails Unauthorized and the
\* recorded seller's succeeds; a successful cancel_listing is made by the
\* recorded seller on an active listing and changes the active flag to false
\* and nothing else.
C23_CancelListingBySellerOnly ==
    /\ [](\A ref \in AssetRefs : \A signer \in Addr, seller \in Addr :
            IsActiveListing(ref) =>
              CancelListingResult(signer, seller, ref[1], ref[2])
                = IF signer = seller /\ seller = listing[ref].seller
                  THEN "ok" ELSE "Unauthorized")
    /\ [][\A ref \in AssetRefs :
            (last'.op = "cancel_listing" /\ last'.args.nft_contract = ref[1]
               /\ last'.args.token_id = ref[2])
              => /\ IsActiveListing(ref)
                 /\ last'.args.seller = listing[ref].seller
                 /\ last'.args.signer = last'.args.seller
                 /\ listing' = [listing EXCEPT ![ref].active = FALSE]
                 /\ UNCHANGED <<nftVars, mktInstance, auction, bids, now>>]_vars

\* C23 witness: a listing has just been cancelled by its seller and is
\* inactive, with its seller and price still recorded.
C23_Witness ==
    \E ref \in AssetRefs :
        /\ last.op = "cancel_listing"
        /\ Has(listing, ref)
        /\ ~listing[ref].active
        /\ listing[ref].seller = last.args.seller
        /\ listing[ref].price > 0

\* C24: total_supply is the number of token ids that exist; it changes only
\* in a successful mint, by exactly +1, and so never decreases.
C24_SupplyCountsTokens ==
    /\ [](total_supply = Cardinality(DOMAIN owner))
    /\ [][/\ total_supply' >= total_supply
          /\ total_supply' # total_supply
               => /\ last'.op = "mint"
                  /\ total_supply' = total_supply + 1
          /\ last'.op = "mint" /\ last' # last => total_supply' = total_supply + 1]_vars

\* C24 witness: a token has been minted and then moved, and the supply is 1.
C24_Witness ==
    /\ total_supply = 1
    /\ Cardinality(DOMAIN owner) = 1
    /\ last.op \in {"transfer", "transfer_from"}

\* C25: no bid is accepted on an inactive auction (NotActive) or at a time
\* >= end_time (AuctionEnded); the clock never goes back; so from the moment
\* the time has reached end_time the auction's current_bid and highest_bidder
\* stay as they are, and the highest bidder recorded when end_auction closes
\* the auction is the one recorded as of end_time.
C25_NoBidAfterEnd ==
    /\ [](\A ref \in DOMAIN auction : \A bidder \in Addr, amount \in Amounts :
            /\ ~auction[ref].active
                 => BidResult(bidder, bidder, ref[1], ref[2], amount) = "NotActive"
            /\ (auction[ref].active /\ now >= auction[ref].end_time)
                 => BidResult(bidder, bidder, ref[1], ref[2], amount) = "AuctionEnded")
    /\ [][/\ now' >= now
          /\ \A ref \in DOMAIN auction :
               /\ (last'.op = "bid" /\ last'.args.nft_contract = ref[1]
                     /\ last'.args.token_id = ref[2])
                    => (auction[ref].active /\ now < auction[ref].end_time)
               /\ (~auction[ref].active \/ now >= auction[ref].end_time)
                    => /\ ref \in DOMAIN auction'
                       /\ auction'[ref].current_bid = auction[ref].current_bid
                       /\ auction'[ref].highest_bidder = auction[ref].highest_bidder
                       /\ auction'[ref].end_time = auction[ref].end_time]_vars

\* C25 witness: an auction that received a bid from another principal than
\* its seller has been ended after its end_time, and a higher bid is now
\* refused.
C25_Witness ==
    \E ref \in DOMAIN auction :
        /\ last.op = "end_auction"
        /\ auction[ref].current_bid > 0
        /\ auction[ref].current_bid < MaxAmount
        /\ auction[ref].highest_bidder # auction[ref].seller
        /\ now >= auction[ref].end_time
        /\ BidResult("C", "C", ref[1], ref[2], MaxAmount) = "NotActive"

\* C26: sold and cancelled are terminal for a listing record.  On an inactive
\* listing every authorized buy_nft fails NotActive and every cancel_listing
\* fails (NotActive for the recorded seller, whose seller check passes); an
\* inactive listing record never changes again, so it is bought at most once;
\* and the seller and price of a listing never change.
C26_ListingClosedIsTerminal ==
    /\ [](\A ref \in DOMAIN listing :
            ~listing[ref].active =>
              /\ \A buyer \in Addr :
                   BuyNftResult(buyer, buyer, ref[1], ref[2]) = "NotActive"
              /\ \A signer \in Addr, seller \in Addr :
                   CancelListingResult(signer, seller, ref[1], ref[2]) # "ok"
              /\ CancelListingResult(listing[ref].seller, listing[ref].seller,
                                     ref[1], ref[2]) = "NotActive")
    /\ [][\A ref \in DOMAIN listing :
            /\ ref \in DOMAIN listing'
            /\ listing'[ref].seller = listing[ref].seller
            /\ listing'[ref].price = listing[ref].price
            /\ ~listing[ref].active
                 => /\ listing'[ref] = listing[ref]
                    /\ ~(last'.op \in {"buy_nft", "cancel_listing"}
                           /\ last' # last
                           /\ last'.args.nft_contract = ref[1]
                           /\ last'.args.token_id = ref[2])]_vars

\* C26 witness: a listing has been bought, and the time has moved on since;
\* the record is inactive and a further purchase is refused as NotActive.
C26_Witness ==
    \E ref \in DOMAIN listing : \E buyer \in Addr :
        /\ last.op = "tick"
        /\ ~listing[ref].active
        /\ buyer # listing[ref].seller
        /\ BuyNftResult(buyer, buyer, ref[1], ref[2]) = "NotActive"

\* C27: an auction is closed at most once.  On an inactive auction every
\* authorized bid and every end_auction fails NotActive and every
\* cancel_auction fails (NotActive for the recorded seller); an inactive
\* auction record never changes again.
C27_AuctionClosedIsTerminal ==
    /\ [](\A ref \in DOMAIN auction :
            ~auction[ref].active =>
              /\ \A bidder \in Addr, amount \in Amounts :
                   BidResult(bidder, bidder, ref[1], ref[2], amount) = "NotActive"
              /\ EndAuctionResult(ref[1], ref[2]) = "NotActive"
              /\ \A signer \in Addr, seller \in Addr :
                   CancelAuctionResult(signer, seller, ref[1], ref[2]) # "ok"
              /\ CancelAuctionResult(auction[ref].seller, auction[ref].seller,
                                     ref[1], ref[2]) = "NotActive")
    /\ [][\A ref \in DOMAIN auction :
            /\ ref \in DOMAIN auction'
            /\ ~auction[ref].active
                 => /\ auction'[ref] = auction[ref]
                    /\ ~(last'.op \in {"bid", "end_auction", "cancel_auction"}
                           /\ last' # last
                           /\ last'.args.nft_contract = ref[1]
                           /\ last'.args.token_id = ref[2])]_vars

\* C27 witness: an auction with a bid has been ended, the time has moved on,
\* and ending it again is refused as NotActive.
C27_Witness ==
    \E ref \in DOMAIN auction :
        /\ last.op = "tick"
        /\ ~auction[ref].active
        /\ auction[ref].current_bid > 0
        /\ now > auction[ref].end_time
        /\ EndAuctionResult(ref[1], ref[2]) = "NotActive"

\* C28: every accepted bid is at least the starting price: each auction has
\* current_bid = 0 or current_bid >= starting_price.
C28_BidAtLeastStartingPrice ==
    \A ref \in DOMAIN auction :
        \/ auction[ref].current_bid = 0
        \/ auction[ref].current_bid >= auction[ref].starting_price

\* C28 witness: an auction whose starting price is above the smallest
\* positive amount has received a bid.
C28_Witness ==
    \E ref \in DOMAIN auction :
        /\ last.op = "bid"
        /\ auction[ref].starting_price > 1
        /\ auction[ref].current_bid >= auction[ref].starting_price

\* C29: list_nft with price <= 0 and create_auction with starting_price <= 0
\* or duration = 0 fail InvalidParameter, so every stored listing has
\* price > 0 and every stored auction has starting_price > 0 and
\* end_time > start_time; a create_auction step stores start_time = now and
\* end_time = start_time + duration; and no later step changes the seller,
\* starting_price, start_time or end_time of an auction.
C29_ParametersValidated ==
    /\ [](/\ \A ref \in AssetRefs : \A seller \in Addr, price \in Amounts :
               price <= 0 =>
                 ListNftResult(seller, seller, ref[1], ref[2], price) = "InvalidParameter"
          /\ \A ref \in AssetRefs : \A seller \in Addr, sp \in Amounts, d \in Durations :
               (sp <= 0 \/ d = 0) =>
                 CreateAuctionResult(seller, seller, ref[1], ref[2], sp, d)
                   = "InvalidParameter"
          /\ \A ref \in DOMAIN listing : listing[ref].price > 0
          /\ \A ref \in DOMAIN auction :
               /\ auction[ref].starting_price > 0
               /\ auction[ref].end_time > auction[ref].start_time)
    /\ [][/\ \A ref \in AssetRefs :
               (last'.op = "create_auction" /\ last'.args.nft_contract = ref[1]
                  /\ last'.args.token_id = ref[2])
                 => /\ ref \notin DOMAIN auction
                    /\ last'.args.duration > 0
                    /\ auction'[ref].starting_price = last'.args.starting_price
                    /\ auction'[ref].start_time = now
                    /\ auction'[ref].end_time = now + last'.args.duration
          /\ \A ref \in DOMAIN auction :
               /\ ref \in DOMAIN auction'
               /\ auction'[ref].seller = auction[ref].seller
               /\ auction'[ref].starting_price = auction[ref].starting_price
               /\ auction'[ref].start_time = auction[ref].start_time
               /\ auction'[ref].end_time = auction[ref].end_time]_vars

\* C29 witness: a listing and an auction are both stored, the auction created
\* after time 0 and since bid on and ended.
C29_Witness ==
    \E ref \in DOMAIN auction :
        /\ listing # Empty
        /\ last.op = "end_auction"
        /\ auction[ref].start_time > 0
        /\ auction[ref].end_time = auction[ref].start_time + 1
        /\ auction[ref].current_bid > 0

\* C30: the Bid record of a bidder holds that bidder's latest accepted bid: a
\* bid step stores its amount under (asset, bidder); for every auction with
\* current_bid > 0 the record of (asset, highest_bidder) has
\* amount = current_bid and every other bidder's record for the asset has a
\* smaller amount.
C30_BidRecordIsLatestBid ==
    /\ [](\A ref \in DOMAIN auction :
            auction[ref].current_bid > 0 =>
              /\ Has(bids, <<ref[1], ref[2], auction[ref].highest_bidder>>)
              /\ bids[<<ref[1], ref[2], auction[ref].highest_bidder>>].amount
                   = auction[ref].current_bid
              /\ \A b \in Addr :
                   (b # auction[ref].highest_bidder /\ Has(bids, <<ref[1], ref[2], b>>))
                     => bids[<<ref[1], ref[2], b>>].amount < auction[ref].current_bid)
    /\ [][\A key \in DOMAIN bids' :
            IF last'.op = "bid" /\ last' # last
               /\ key = <<last'.args.nft_contract, last'.args.token_id, last'.args.bidder>>
            THEN /\ bids'[key].amount = last'.args.amount
                 /\ bids'[key].bidder = last'.args.bidder
            ELSE key \in DOMAIN bids /\ bids'[key] = bids[key]]_vars

\* C30 witness: two principals have bid on the same auction; the later,
\* higher bid is the highest bidder's record and the earlier one is smaller.
C30_Witness ==
    \E ref \in DOMAIN auction : \E b \in Addr :
        /\ last.op = "bid"
        /\ b # auction[ref].highest_bidder
        /\ Has(bids, <<ref[1], ref[2], b>>)
        /\ Has(bids, <<ref[1], ref[2], auction[ref].highest_bidder>>)
        /\ bids[<<ref[1], ref[2], b>>].amount > 0
        /\ bids[<<ref[1], ref[2], auction[ref].highest_bidder>>].amount
             = auction[ref].current_bid

\* The token was minted with an empty initial provenance: its provenance holds
\* no record other than those appended by transfer and transfer_from.
MintedWithEmptyProvenance(id) ==
    \A i \in 1..Len(provenance[id]) :
        provenance[id][i].transaction_type \in {"transfer", "transfer_from"}

\* C31: the provenance chain is consistent with ownership.  Every record
\* appended by a transfer or transfer_from has the owner of the moment before
\* as its `from` and the owner of the moment after as its `to`, and while the
\* provenance is empty the owner stays the mint recipient; so for a token
\* minted with empty provenance every record's `from` is the previous
\* record's `to` and the last record's `to` is the current owner.
C31_ProvenanceChainFollowsOwner ==
    /\ [](\A id \in DOMAIN owner :
            MintedWithEmptyProvenance(id) =>
              /\ \A i \in 2..Len(provenance[id]) :
                   provenance[id][i].from = provenance[id][i - 1].to
              /\ Len(provenance[id]) > 0
                   => provenance[id][Len(provenance[id])].to = owner[id])
    /\ [][\A id \in DOMAIN owner :
            IF Invoked("transfer", id) \/ Invoked("transfer_from", id)
            THEN /\ Len(provenance'[id]) = Len(provenance[id]) + 1
                 /\ provenance'[id][Len(provenance'[id])].from = owner[id]
                 /\ provenance'[id][Len(provenance'[id])].to = owner'[id]
            ELSE /\ owner'[id] = owner[id]
                 /\ provenance'[id] = provenance[id]]_vars

\* C31 witness: a token minted with empty provenance has moved twice, by a
\* transfer and then a transfer_from, between three different principals.
C31_Witness ==
    \E id \in DOMAIN owner :
        /\ MintedWithEmptyProvenance(id)
        /\ Len(provenance[id]) = 2
        /\ provenance[id][1].transaction_type = "transfer"
        /\ provenance[id][2].transaction_type = "transfer_from"
        /\ provenance[id][1].from # provenance[id][1].to
        /\ provenance[id][2].to # provenance[id][1].to
        /\ provenance[id][2].to # provenance[id][1].from
        /\ owner[id] = provenance[id][2].to

\* C32: no auction is stuck active.  On an active auction whose end_time has
\* been reached end_auction succeeds, whoever submits it and whether or not
\* there are bids; and with the clock advancing and end_auction weakly fair,
\* every active auction whose end_time lies within the clock's range
\* eventually becomes inactive.
C32_AuctionEventuallyInactive ==
    /\ [](\A ref \in DOMAIN auction :
            (auction[ref].active /\ now >= auction[ref].end_time)
              => EndAuctionResult(ref[1], ref[2]) = "ok")
    /\ \A ref \in AssetRefs :
         (IsActiveAuction(ref) /\ auction[ref].end_time <= MaxTime)
           ~> (Has(auction, ref) /\ ~auction[ref].active)

\* C32 witness: an auction that never received a bid has been ended by
\* end_auction after its end_time.
C32_Witness ==
    \E ref \in DOMAIN auction :
        /\ last.op = "end_auction"
        /\ ~auction[ref].active
        /\ auction[ref].current_bid = 0
        /\ auction[ref].highest_bidder = auction[ref].seller
        /\ now >= auction[ref].end_time

\* Every stored reward has a non-negative cost.
CostsNonNegative == \A r \in DOMAIN rewards : rewards[r].points_cost >= 0

=============================================================================
